---- MODULE Spec2Model ----
(***************************************************************************)
(* State-machine model of the cart-to-order workflow and the order         *)
(* lifecycle of the e-commerce demo backend (internal/services/order.go    *)
(* and the cart service).  The relational store is modelled as sets of     *)
(* rows; every store call of a handler is one step, so that a store error  *)
(* can be injected at each call and handlers can interleave.               *)
(*                                                                         *)
(* Money is kept in integer minor units (DECIMAL(10,2) columns).           *)
(***************************************************************************)
EXTENDS Integers, Sequences, FiniteSets, TLC

VARIABLES
  products,        \* products table: id -> [price, category]
  carts,           \* carts table: set of [id, user_id]
  cart_items,      \* cart_items table: set of [id, cart_id, product_id, quantity]
  orders,          \* orders table: set of order rows
  order_items,     \* order_items table: set of [order_id, line, product_id, quantity, price]
  nextCartId,      \* AUTO_INCREMENT counter of carts
  nextCartItemId,  \* AUTO_INCREMENT counter of cart_items
  nextOrderId,     \* AUTO_INCREMENT counter of orders
  now,             \* the store's clock, in seconds (NOW())
  pc,              \* per request worker: the store call it is about to make
  call,            \* per request worker: the handler running and its arguments
  loc,             \* per request worker: the handler's local variables
  tx,              \* per request worker: its open transaction (uncommitted writes)
  result,          \* per request worker: the error (or "ok") the handler returned
  emitted,         \* per request worker: metric events emitted by the running call
  pre,             \* per request worker: the committed tables when its CreateOrder began
  cache,           \* ProductCache.items: product id -> entry (or NoEntry)
  mu,              \* ProductCache.mu: the workers holding the read lock, the one holding the write lock
  held,            \* per product and clock value: the rows the store held for it at that time
  completed        \* per order id: the completion emissions made for it and the revenue they added

store == <<products, carts, cart_items, orders, order_items,
           nextCartId, nextCartItemId, nextOrderId, now>>
procs == <<pc, call, loc, tx, result, emitted, pre>>
cacheVars == <<cache, mu, held>>
vars == <<products, carts, cart_items, orders, order_items,
          nextCartId, nextCartItemId, nextOrderId, now,
          pc, call, loc, tx, result, emitted, pre, cache, mu, held, completed>>

----------------------------------------------------------------------------
\* Bounds of the model.

\* Largest id the carts AUTO_INCREMENT counter hands out.
MaxCartId == 2
\* Largest id the cart_items AUTO_INCREMENT counter hands out.
MaxCartItemId == 2
\* Largest id the orders AUTO_INCREMENT counter hands out.
MaxOrderId == 2
\* Largest quantity a cart row is grown to.
MaxQuantity == 2
\* Last value of the clock.
MaxTime == 2
\* The cache TTL (5 minutes), in clock units.
TTL == 1
\* Completion emissions counted per order.
MaxCompletions == 2

\* Request workers (one goroutine per HTTP request).
Procs == {1, 2}
\* Workers of the sequential specifications: one request at a time.
SeqProcs == {1}

Users == {1, 2}
\* Product ids of the catalog.
ProductIds == {1, 2}
\* Product ids a request may name; 3 is not in the catalog.
RequestProductIds == {1, 2, 3}
Quantities == {1, 2}
\* Quantities an AddToCart request body may carry (an int, not validated).
RequestQuantities == {-1, 0, 1}
Prices == {2, 3}
PaymentMethods == {"paypal", "credit_card"}
Currencies == {"USD"}
\* Order ids a status request may name; the ids above MaxOrderId are never stored.
RequestOrderIds == 1 .. (MaxOrderId + 1)

\* A NULL category column.
SqlNull == "<NULL>"

\* Outcomes of one store call: FALSE the call succeeds, TRUE it returns an error.
NoFaults == {FALSE}
Faults == {FALSE, TRUE}

----------------------------------------------------------------------------
\* Rows and records.

NoOrder ==
  [id |-> 0, user_id |-> 0, status |-> "", payment_method |-> "",
   total_amount |-> 0, currency |-> "", updated_at |-> 0]

NoCall ==
  [op |-> "none", userID |-> 0, productID |-> 0, quantity |-> 0,
   paymentMethod |-> "", currency |-> "", orderID |-> 0, status |-> ""]

\* No product value (an absent map entry, a call that returned no product).
NoProduct == [id |-> 0, price |-> 0, category |-> ""]

NoLoc ==
  [items |-> <<>>, totalAmount |-> 0, itemsWithCategories |-> <<>>,
   orderID |-> 0, i |-> 0, cartID |-> 0, existingID |-> 0,
   order |-> NoOrder, rowsAffected |-> 0, failed |-> {},
   hit |-> FALSE, product |-> NoProduct]

\* An absent entry of the cache map.
NoEntry == [product |-> NoProduct, expires |-> 0]

\* The products row of id, as GetProduct scans it.
ProductRow(id) ==
  [id |-> id, price |-> products[id].price, category |-> products[id].category]

NoTx ==
  [open |-> FALSE, snapCarts |-> {}, orders |-> {}, items |-> {},
   deleted |-> {}, lockedCart |-> 0]

NoPre == [carts |-> {}, cart_items |-> {}, orders |-> {}, order_items |-> {}]

Committed ==
  [carts |-> carts, cart_items |-> cart_items, orders |-> orders,
   order_items |-> order_items]

Event(name, category, payment, status, currency, user, value) ==
  [name |-> name, product_category |-> category, payment_method |-> payment,
   order_status |-> status, currency |-> currency, user_id |-> user,
   value |-> value]

----------------------------------------------------------------------------
\* Pure helpers.

RECURSIVE SeqById(_)
\* The rows of S in id order (the order an index scan returns them).
SeqById(S) ==
  IF S = {} THEN <<>>
  ELSE LET r == CHOOSE x \in S : \A y \in S : x.id <= y.id
       IN  <<r>> \o SeqById(S \ {r})

RECURSIVE SumSeq(_)
SumSeq(s) == IF s = <<>> THEN 0 ELSE Head(s) + SumSeq(Tail(s))

RECURSIVE SumSet(_, _)
\* Sum of f[x] over the finite set S.
SumSet(S, f) ==
  IF S = {} THEN 0
  ELSE LET x == CHOOSE y \in S : TRUE IN f[x] + SumSet(S \ {x}, f)

Range(s) == {s[k] : k \in DOMAIN s}

----------------------------------------------------------------------------
\* Initial state: the schema just loaded, no carts, no orders, all workers idle.

InitProducts(cats) ==
  {[id \in ProductIds |->
      [price |-> IF id = 1 THEN 2 ELSE 3,
       category |-> IF id = 1 THEN "Electronics" ELSE c]] : c \in cats}

InitWith(cats) ==
  /\ products \in InitProducts(cats)
  /\ carts = {}
  /\ cart_items = {}
  /\ orders = {}
  /\ order_items = {}
  /\ nextCartId = 1
  /\ nextCartItemId = 1
  /\ nextOrderId = 1
  /\ now = 0
  /\ pc = [p \in Procs |-> "idle"]
  /\ call = [p \in Procs |-> NoCall]
  /\ loc = [p \in Procs |-> NoLoc]
  /\ tx = [p \in Procs |-> NoTx]
  /\ result = [p \in Procs |-> "none"]
  /\ emitted = [p \in Procs |-> {}]
  /\ pre = [p \in Procs |-> NoPre]
  /\ cache = [id \in ProductIds |-> NoEntry]
  /\ mu = [readers |-> {}, writer |-> 0]
  /\ held = [id \in ProductIds |->
               [t \in 0 .. MaxTime |-> IF t = 0 THEN {ProductRow(id)} ELSE {}]]
  /\ completed = [id \in RequestOrderIds |-> [count |-> 0, revenue |-> 0]]

Init == InitWith({"Clothing"})

----------------------------------------------------------------------------
\* Row locks of open transactions (InnoDB): a transaction that has run
\* DELETE FROM cart_items WHERE cart_id = ? holds the rows and the index range
\* of that cart until it commits or rolls back; other writers of that cart wait.

CartLockedByOther(p, cartID) ==
  \E q \in Procs \ {p} : tx[q].open /\ tx[q].lockedCart = cartID

\* A handler returns res; `at` names the store call whose error made it return
\* ("none": no store call failed).  loc[p].failed keeps the store calls that
\* failed during the call.  The deferred tx.Rollback() discards an open
\* transaction.
Return(p, res, at) ==
  /\ pc' = [pc EXCEPT ![p] = "done"]
  /\ result' = [result EXCEPT ![p] = res]
  /\ loc' = [loc EXCEPT ![p].failed = IF at = "none" THEN @ ELSE @ \cup {at}]
  /\ tx' = [tx EXCEPT ![p] = NoTx]

\* The HTTP handler has written its response; the worker is free again.
Respond(p) ==
  /\ pc[p] = "done"
  /\ pc' = [pc EXCEPT ![p] = "idle"]
  /\ call' = [call EXCEPT ![p] = NoCall]
  /\ loc' = [loc EXCEPT ![p] = NoLoc]
  /\ tx' = [tx EXCEPT ![p] = NoTx]
  /\ result' = [result EXCEPT ![p] = "none"]
  /\ emitted' = [emitted EXCEPT ![p] = {}]
  /\ pre' = [pre EXCEPT ![p] = NoPre]
  /\ UNCHANGED store
  /\ UNCHANGED cacheVars
  /\ UNCHANGED completed

----------------------------------------------------------------------------
\* CartService (GetOrCreateCart, AddToCart, RemoveFromCart).

UserCarts(cs, userID) == {c \in cs : c.user_id = userID}

\* After GetOrCreateCart the caller goes on with its own first store call.
AfterCart(op) == IF op = "AddToCart" THEN "atc_product" ELSE "rfc_delete"

\* Calls about to insert a carts row.
PendingCartIds == Cardinality({q \in Procs : pc[q] = "goc_insert"})

\* The carts counter can still serve a first access of userID.
CartIdLeft(userID) ==
  UserCarts(carts, userID) # {} \/ nextCartId + PendingCartIds <= MaxCartId

\* GetOrCreateCart, first call: SELECT ... FROM carts WHERE user_id = ? LIMIT 1.
\* With several rows for the user the row LIMIT 1 returns is unspecified.
GetOrCreateCartSelect(p, c, F) ==
  /\ call' = [call EXCEPT ![p] = c]
  /\ emitted' = [emitted EXCEPT ![p] = {}]
  /\ \E fail \in F :
       \E cid \in (IF fail \/ UserCarts(carts, c.userID) = {} THEN {0}
                   ELSE {x.id : x \in UserCarts(carts, c.userID)}) :
         IF fail
         THEN Return(p, "store error", "carts_select")
         ELSE /\ pc' = [pc EXCEPT ![p] =
                         IF cid = 0 THEN "goc_insert" ELSE AfterCart(c.op)]
              /\ loc' = [loc EXCEPT ![p] = [NoLoc EXCEPT !.cartID = cid]]
              /\ UNCHANGED <<tx, result>>
  /\ UNCHANGED <<store, pre>>
  /\ UNCHANGED cacheVars
  /\ UNCHANGED completed

\* GetOrCreateCart, second call: INSERT INTO carts (user_id) VALUES (?).
GetOrCreateCartInsert(p, F) ==
  /\ pc[p] = "goc_insert"
  /\ \E fail \in F :
       IF fail
       THEN /\ Return(p, "store error", "carts_insert")
            /\ UNCHANGED <<carts, nextCartId>>
       ELSE /\ carts' = carts \cup {[id |-> nextCartId, user_id |-> call[p].userID]}
            /\ nextCartId' = nextCartId + 1
            /\ loc' = [loc EXCEPT ![p].cartID = nextCartId]
            /\ pc' = [pc EXCEPT ![p] = AfterCart(call[p].op)]
            /\ UNCHANGED <<tx, result>>
  /\ UNCHANGED <<products, cart_items, orders, order_items, nextCartItemId,
                 nextOrderId, now, call, emitted, pre>>
  /\ UNCHANGED cacheVars
  /\ UNCHANGED completed

\* The cart_items rows of userID's carts for productID.
UserCartItems(userID, productID) ==
  {ci \in cart_items :
     /\ ci.product_id = productID
     /\ \E c \in UserCarts(carts, userID) : c.id = ci.cart_id}

\* AddToCart calls that may still insert a cart_items row.
PendingCartItemIds ==
  Cardinality({q \in Procs :
                 /\ call[q].op = "AddToCart"
                 /\ pc[q] \in {"goc_insert", "atc_product", "atc_check",
                               "atc_insert"}})

\* The cart_items counter can still serve a new row, or the call grows a row
\* that exists.
CartItemIdLeft(userID, productID) ==
  \/ UserCartItems(userID, productID) # {}
  \/ nextCartItemId + PendingCartItemIds <= MaxCartItemId

\* AddToCart is called: its first store call is GetOrCreateCart's SELECT.
AddToCart(p, U, P, Q, F) ==
  /\ pc[p] = "idle"
  /\ \E u \in U, pr \in P, q \in Q :
       /\ CartIdLeft(u)
       /\ CartItemIdLeft(u, pr)
       /\ \A ci \in UserCartItems(u, pr) :
            /\ ci.quantity + q <= MaxQuantity
            /\ ci.quantity + q >= 0 - MaxQuantity
       /\ GetOrCreateCartSelect(p,
            [NoCall EXCEPT !.op = "AddToCart", !.userID = u,
                           !.productID = pr, !.quantity = q], F)

\* Variant of AddToCartVerifyProduct that goes on whatever the product id.
AddToCartVerifyProductSkipped(p, F) ==
  /\ pc[p] = "atc_product"
  /\ \E fail \in F :
       IF fail THEN Return(p, "store error", "product_exists")
       ELSE /\ pc' = [pc EXCEPT ![p] = "atc_check"]
            /\ UNCHANGED <<loc, tx, result>>
  /\ UNCHANGED <<store, call, emitted, pre>>
  /\ UNCHANGED cacheVars
  /\ UNCHANGED completed

\* SELECT EXISTS(SELECT 1 FROM products WHERE id = ?)
AddToCartVerifyProduct(p, F) ==
  /\ pc[p] = "atc_product"
  /\ \E fail \in F :
       IF fail THEN Return(p, "store error", "product_exists")
       ELSE IF call[p].productID \notin DOMAIN products
       THEN Return(p, "product not found", "none")
       ELSE /\ pc' = [pc EXCEPT ![p] = "atc_check"]
            /\ UNCHANGED <<loc, tx, result>>
  /\ UNCHANGED <<store, call, emitted, pre>>
  /\ UNCHANGED cacheVars
  /\ UNCHANGED completed

\* SELECT id, quantity FROM cart_items WHERE cart_id = ? AND product_id = ?
AddToCartCheckItem(p, F) ==
  /\ pc[p] = "atc_check"
  /\ LET rows == {ci \in cart_items : /\ ci.cart_id = loc[p].cartID
                                       /\ ci.product_id = call[p].productID}
     IN \E fail \in F :
          \E id \in (IF fail \/ rows = {} THEN {0} ELSE {ci.id : ci \in rows}) :
            IF fail THEN Return(p, "store error", "cart_items_select")
            ELSE /\ pc' = [pc EXCEPT ![p] =
                            IF id = 0 THEN "atc_insert" ELSE "atc_update"]
                 /\ loc' = [loc EXCEPT ![p].existingID = id]
                 /\ UNCHANGED <<tx, result>>
  /\ UNCHANGED <<store, call, emitted, pre>>
  /\ UNCHANGED cacheVars
  /\ UNCHANGED completed

\* INSERT INTO cart_items (cart_id, product_id, quantity) VALUES (?, ?, ?)
AddToCartInsert(p, F) ==
  /\ pc[p] = "atc_insert"
  /\ \E fail \in F :
       IF fail
       THEN /\ Return(p, "store error", "cart_items_insert")
            /\ UNCHANGED <<cart_items, nextCartItemId>>
       ELSE /\ ~CartLockedByOther(p, loc[p].cartID)
            /\ cart_items' = cart_items \cup
                 {[id |-> nextCartItemId, cart_id |-> loc[p].cartID,
                   product_id |-> call[p].productID,
                   quantity |-> call[p].quantity]}
            /\ nextCartItemId' = nextCartItemId + 1
            /\ pc' = [pc EXCEPT ![p] = "cart_gauge"]
            /\ UNCHANGED <<loc, tx, result>>
  /\ UNCHANGED <<products, carts, orders, order_items, nextCartId, nextOrderId,
                 now, call, emitted, pre>>
  /\ UNCHANGED cacheVars
  /\ UNCHANGED completed

\* UPDATE cart_items SET quantity = quantity + ?, updated_at = NOW() WHERE id = ?
AddToCartUpdate(p, F) ==
  /\ pc[p] = "atc_update"
  /\ \E fail \in F :
       IF fail
       THEN /\ Return(p, "store error", "cart_items_update")
            /\ UNCHANGED cart_items
       ELSE /\ \A ci \in cart_items :
                 ci.id = loc[p].existingID => ~CartLockedByOther(p, ci.cart_id)
            /\ cart_items' =
                 {IF ci.id = loc[p].existingID
                  THEN [ci EXCEPT !.quantity = ci.quantity + call[p].quantity]
                  ELSE ci : ci \in cart_items}
            /\ pc' = [pc EXCEPT ![p] = "cart_gauge"]
            /\ UNCHANGED <<loc, tx, result>>
  /\ UNCHANGED <<products, carts, orders, order_items, nextCartId,
                 nextCartItemId, nextOrderId, now, call, emitted, pre>>
  /\ UNCHANGED cacheVars
  /\ UNCHANGED completed

\* RemoveFromCart is called: its first store call is GetOrCreateCart's SELECT.
RemoveFromCart(p, U, P, F) ==
  /\ pc[p] = "idle"
  /\ \E u \in U, pr \in P :
       /\ CartIdLeft(u)
       /\ GetOrCreateCartSelect(p,
            [NoCall EXCEPT !.op = "RemoveFromCart", !.userID = u,
                           !.productID = pr], F)

\* DELETE FROM cart_items WHERE cart_id = ? AND product_id = ?
RemoveFromCartDelete(p, F) ==
  /\ pc[p] = "rfc_delete"
  /\ \E fail \in F :
       IF fail
       THEN /\ Return(p, "store error", "cart_items_delete")
            /\ UNCHANGED cart_items
       ELSE /\ ~CartLockedByOther(p, loc[p].cartID)
            /\ cart_items' = {ci \in cart_items :
                                ~(/\ ci.cart_id = loc[p].cartID
                                  /\ ci.product_id = call[p].productID)}
            /\ pc' = [pc EXCEPT ![p] = "cart_gauge"]
            /\ UNCHANGED <<loc, tx, result>>
  /\ UNCHANGED <<products, carts, orders, order_items, nextCartId,
                 nextCartItemId, nextOrderId, now, call, emitted, pre>>
  /\ UNCHANGED cacheVars
  /\ UNCHANGED completed

\* updateCartItemsCount: SELECT COUNT(*) FROM cart_items WHERE cart_id = ?, then
\* SELECT user_id FROM carts WHERE id = ?; the gauge is recorded only when both
\* reads succeed.  Its caller then returns nil.
UpdateCartItemsCount(p, F) ==
  /\ pc[p] = "cart_gauge"
  /\ \E fail \in F :
       /\ emitted' = [emitted EXCEPT ![p] =
            IF fail THEN @
            ELSE @ \cup
              {Event("cart_items_count", "", "", "", "", c.user_id,
                     Cardinality({ci \in cart_items : ci.cart_id = loc[p].cartID}))
                 : c \in {x \in carts : x.id = loc[p].cartID}}]
       /\ Return(p, "ok", "none")
  /\ UNCHANGED <<store, call, pre>>
  /\ UNCHANGED cacheVars
  /\ UNCHANGED completed

----------------------------------------------------------------------------
\* Category aggregation shared by the two metric emissions.

\* Variant of categoryRevenue[c] that adds each line's price once, whatever its
\* quantity.
CategoryRevenueOfPrices(lines, c) ==
  SumSeq([k \in 1 .. Len(lines) |->
            IF lines[k].category = c THEN lines[k].price ELSE 0])

RECURSIVE CategoryRevenue(_, _)
\* categoryRevenue[c]: sum of price * quantity over the lines of category c.
CategoryRevenue(lines, c) ==
  IF lines = <<>> THEN 0
  ELSE (IF Head(lines).category = c
        THEN Head(lines).price * Head(lines).quantity ELSE 0)
       + CategoryRevenue(Tail(lines), c)

RECURSIVE CategoryOrders(_, _)
\* categoryOrders[c]: number of lines of category c.
CategoryOrders(lines, c) ==
  IF lines = <<>> THEN 0
  ELSE (IF Head(lines).category = c THEN 1 ELSE 0)
       + CategoryOrders(Tail(lines), c)

\* One orders-created and one revenue event per key of categoryOrders.
RecordCategoryMetrics(lines, payment, currency, status) ==
  UNION {{Event("orders_created_total", c, payment, status, "", 0,
                CategoryOrders(lines, c)),
          Event("revenue_total", c, payment, status, currency, 0,
                CategoryRevenue(lines, c))}
         : c \in {l.category : l \in Range(lines)}}

----------------------------------------------------------------------------
\* OrderService.CreateOrder.

\* Variant of the cart query that drops the WHERE c.user_id = ? filter.
CartSnapshotAllUsers(userID) ==
  LET rows == {ci \in cart_items :
                 /\ \E c \in carts : c.id = ci.cart_id
                 /\ ci.product_id \in DOMAIN products}
      sorted == SeqById(rows)
  IN [k \in 1 .. Len(sorted) |->
        [ProductID |-> sorted[k].product_id,
         Quantity |-> sorted[k].quantity,
         Price |-> products[sorted[k].product_id].price]]

\* The cart query: cart_items JOIN products JOIN carts WHERE c.user_id = ?.
CartSnapshot(userID) ==
  LET rows == {ci \in cart_items :
                 /\ \E c \in carts : c.id = ci.cart_id /\ c.user_id = userID
                 /\ ci.product_id \in DOMAIN products}
      sorted == SeqById(rows)
  IN [k \in 1 .. Len(sorted) |->
        [ProductID |-> sorted[k].product_id,
         Quantity |-> sorted[k].quantity,
         Price |-> products[sorted[k].product_id].price]]

\* Variant of the total that adds each row's price once, whatever its quantity.
TotalAmountOfPrices(items) ==
  SumSeq([k \in 1 .. Len(items) |-> items[k].Price])

\* totalAmount += item.Price * float64(item.Quantity), over the scanned rows.
TotalAmount(items) ==
  SumSeq([k \in 1 .. Len(items) |-> items[k].Price * items[k].Quantity])

\* categoryMap[id] after the category query: rows whose category is NULL fail to
\* scan and are left out; a failed query leaves the map empty.  A missing key
\* reads as "".
CategoryMapLookup(failed, id) ==
  IF failed \/ id \notin DOMAIN products \/ products[id].category = SqlNull
  THEN ""
  ELSE products[id].category

\* itemsWithCategories: an empty category becomes "unknown".
ItemsWithCategories(items, failed) ==
  [k \in 1 .. Len(items) |->
     [productID |-> items[k].ProductID,
      quantity |-> items[k].Quantity,
      price |-> items[k].Price,
      category |-> IF CategoryMapLookup(failed, items[k].ProductID) = ""
                   THEN "unknown"
                   ELSE CategoryMapLookup(failed, items[k].ProductID)]]

\* CreateOrder calls still to draw an order id.
PendingOrderIds ==
  Cardinality({q \in Procs : /\ call[q].op = "CreateOrder"
                             /\ pc[q] \notin {"idle", "done"}
                             /\ loc[q].orderID = 0})

\* CreateOrder is called: s.db.BeginTx.
CreateOrder(p, U, PM, F) ==
  /\ pc[p] = "idle"
  /\ nextOrderId + PendingOrderIds <= MaxOrderId
  /\ \E u \in U, pm \in PM, cur \in Currencies :
       call' = [call EXCEPT ![p] =
                  [NoCall EXCEPT !.op = "CreateOrder", !.userID = u,
                                 !.paymentMethod = pm, !.currency = cur]]
  /\ pre' = [pre EXCEPT ![p] = Committed]
  /\ emitted' = [emitted EXCEPT ![p] = {}]
  /\ \E fail \in F :
       IF fail THEN Return(p, "store error", "begin")
       ELSE /\ pc' = [pc EXCEPT ![p] = "co_snapshot"]
            /\ tx' = [tx EXCEPT ![p] = [NoTx EXCEPT !.open = TRUE]]
            /\ loc' = [loc EXCEPT ![p] = NoLoc]
            /\ UNCHANGED result
  /\ UNCHANGED store
  /\ UNCHANGED cacheVars
  /\ UNCHANGED completed

\* Variant of the cart query that locks what it reads (SELECT ... FOR UPDATE):
\* it waits while another open transaction has read a cart.
CreateOrderSnapshotForUpdate(p, F) ==
  /\ pc[p] = "co_snapshot"
  /\ \A q \in Procs \ {p} : ~(tx[q].open /\ tx[q].snapCarts # {})
  /\ LET items == CartSnapshot(call[p].userID)
     IN \E fail \in F :
          IF fail THEN Return(p, "store error", "cart_query")
          ELSE IF Len(items) = 0 THEN Return(p, "cart is empty", "none")
          ELSE /\ pc' = [pc EXCEPT ![p] = "co_categories"]
               /\ loc' = [loc EXCEPT ![p].items = items,
                                     ![p].totalAmount = TotalAmount(items)]
               /\ tx' = [tx EXCEPT ![p].snapCarts = carts]
               /\ UNCHANGED result
  /\ UNCHANGED <<store, call, emitted, pre>>
  /\ UNCHANGED cacheVars
  /\ UNCHANGED completed

\* tx.QueryContext(cartQuery): the first read of the transaction fixes its
\* read view.  No row: "cart is empty".
CreateOrderSnapshot(p, F) ==
  /\ pc[p] = "co_snapshot"
  /\ LET items == CartSnapshot(call[p].userID)
     IN \E fail \in F :
          IF fail THEN Return(p, "store error", "cart_query")
          ELSE IF Len(items) = 0 THEN Return(p, "cart is empty", "none")
          ELSE /\ pc' = [pc EXCEPT ![p] = "co_categories"]
               /\ loc' = [loc EXCEPT ![p].items = items,
                                     ![p].totalAmount = TotalAmount(items)]
               /\ tx' = [tx EXCEPT ![p].snapCarts = carts]
               /\ UNCHANGED result
  /\ UNCHANGED <<store, call, emitted, pre>>
  /\ UNCHANGED cacheVars
  /\ UNCHANGED completed

\* s.db.QueryContext(catQuery), outside the transaction; its error is not
\* returned.
CreateOrderCategories(p, F) ==
  /\ pc[p] = "co_categories"
  /\ \E fail \in F :
       loc' = [loc EXCEPT ![p].itemsWithCategories =
                                ItemsWithCategories(loc[p].items, fail),
                            ![p].failed =
                                IF fail THEN @ \cup {"category_query"} ELSE @]
  /\ pc' = [pc EXCEPT ![p] = "co_order"]
  /\ UNCHANGED <<store, call, tx, result, emitted, pre>>
  /\ UNCHANGED cacheVars
  /\ UNCHANGED completed

\* The orders row CreateOrder inserts.
NewOrder(id, userID, paymentMethod, totalAmount, currency) ==
  [id |-> id, user_id |-> userID, status |-> "pending",
   payment_method |-> paymentMethod, total_amount |-> totalAmount,
   currency |-> currency, updated_at |-> now]

\* Variant of the order insert that runs on the pool (s.db) instead of the
\* transaction: the row is committed at once.
CreateOrderInsertOrderNoTx(p, F) ==
  /\ pc[p] = "co_order"
  /\ \E fail \in F :
       IF fail
       THEN /\ Return(p, "store error", "order_insert")
            /\ UNCHANGED <<nextOrderId, orders>>
       ELSE /\ orders' = orders \cup
                 {NewOrder(nextOrderId, call[p].userID, call[p].paymentMethod,
                           loc[p].totalAmount, call[p].currency)}
            /\ nextOrderId' = nextOrderId + 1
            /\ loc' = [loc EXCEPT ![p].orderID = nextOrderId, ![p].i = 1]
            /\ pc' = [pc EXCEPT ![p] = "co_items"]
            /\ UNCHANGED <<tx, result>>
  /\ UNCHANGED <<products, carts, cart_items, order_items, nextCartId,
                 nextCartItemId, now, call, emitted, pre>>
  /\ UNCHANGED cacheVars
  /\ UNCHANGED completed

\* tx.ExecContext(orderQuery) and result.LastInsertId().
CreateOrderInsertOrder(p, F) ==
  /\ pc[p] = "co_order"
  /\ \E fail \in F :
       IF fail
       THEN /\ Return(p, "store error", "order_insert")
            /\ UNCHANGED nextOrderId
       ELSE /\ tx' = [tx EXCEPT ![p].orders =
                       {NewOrder(nextOrderId, call[p].userID,
                                 call[p].paymentMethod, loc[p].totalAmount,
                                 call[p].currency)}]
            /\ nextOrderId' = nextOrderId + 1
            /\ loc' = [loc EXCEPT ![p].orderID = nextOrderId, ![p].i = 1]
            /\ pc' = [pc EXCEPT ![p] = "co_items"]
            /\ UNCHANGED result
  /\ UNCHANGED <<products, carts, cart_items, orders, order_items, nextCartId,
                 nextCartItemId, now, call, emitted, pre>>
  /\ UNCHANGED cacheVars
  /\ UNCHANGED completed

\* Variant of the order_items row that takes the product's price at insert time.
NewOrderItemCurrentPrice(orderID, i, item) ==
  [order_id |-> orderID, line |-> i, product_id |-> item.ProductID,
   quantity |-> item.Quantity, price |-> products[item.ProductID].price]

\* The order_items row inserted for snapshot line i.
NewOrderItem(orderID, i, item) ==
  [order_id |-> orderID, line |-> i, product_id |-> item.ProductID,
   quantity |-> item.Quantity, price |-> item.Price]

\* One turn of the order-items loop: tx.ExecContext(itemQuery).
CreateOrderInsertItem(p, F) ==
  /\ pc[p] = "co_items"
  /\ \E fail \in F :
       IF fail THEN Return(p, "store error", "item_insert")
       ELSE /\ tx' = [tx EXCEPT ![p].items =
                       @ \cup {NewOrderItem(loc[p].orderID, loc[p].i,
                                            loc[p].items[loc[p].i])}]
            /\ loc' = [loc EXCEPT ![p].i = @ + 1]
            /\ pc' = [pc EXCEPT ![p] =
                       IF loc[p].i = Len(loc[p].items) THEN "co_cart_id"
                       ELSE "co_items"]
            /\ UNCHANGED result
  /\ UNCHANGED <<store, call, emitted, pre>>
  /\ UNCHANGED cacheVars
  /\ UNCHANGED completed

\* tx.QueryRowContext("SELECT id FROM carts WHERE user_id = ?"), read in the
\* transaction's read view.  Any error (a store error, or no row) only skips
\* the delete.  With several carts of the user the row scanned is unspecified.
CreateOrderCartID(p, F) ==
  /\ pc[p] = "co_cart_id"
  /\ LET cs == UserCarts(tx[p].snapCarts, call[p].userID)
     IN \E fail \in F :
          \E cid \in (IF fail \/ cs = {} THEN {0} ELSE {c.id : c \in cs}) :
            /\ loc' = [loc EXCEPT ![p].cartID = cid,
                                  ![p].failed =
                                     IF fail THEN @ \cup {"cart_id"} ELSE @]
            /\ pc' = [pc EXCEPT ![p] =
                       IF cid = 0 THEN "co_commit" ELSE "co_clear"]
  /\ UNCHANGED <<store, call, tx, result, emitted, pre>>
  /\ UNCHANGED cacheVars
  /\ UNCHANGED completed

\* tx.ExecContext("DELETE FROM cart_items WHERE cart_id = ?"): a locking read of
\* the rows committed now, not of the read view.  Its error is overwritten by
\* the commit's and never returned.
CreateOrderClearCart(p, F) ==
  /\ pc[p] = "co_clear"
  /\ \E fail \in F :
       IF fail
       THEN /\ loc' = [loc EXCEPT ![p].failed = @ \cup {"cart_delete"}]
            /\ UNCHANGED tx
       ELSE /\ ~CartLockedByOther(p, loc[p].cartID)
            /\ tx' = [tx EXCEPT
                 ![p].deleted = {ci.id : ci \in {x \in cart_items :
                                                   x.cart_id = loc[p].cartID}},
                 ![p].lockedCart = loc[p].cartID]
            /\ UNCHANGED loc
  /\ pc' = [pc EXCEPT ![p] = "co_commit"]
  /\ UNCHANGED <<store, call, result, emitted, pre>>
  /\ UNCHANGED cacheVars
  /\ UNCHANGED completed

\* tx.Commit(): the transaction's writes become visible together, or none does.
CreateOrderCommit(p, F) ==
  /\ pc[p] = "co_commit"
  /\ \E fail \in F :
       IF fail
       THEN /\ Return(p, "store error", "commit")
            /\ UNCHANGED <<orders, order_items, cart_items>>
       ELSE /\ orders' = orders \cup tx[p].orders
            /\ order_items' = order_items \cup tx[p].items
            /\ cart_items' = {ci \in cart_items : ci.id \notin tx[p].deleted}
            /\ tx' = [tx EXCEPT ![p] = NoTx]
            /\ pc' = [pc EXCEPT ![p] = "co_get_order"]
            /\ UNCHANGED <<loc, result>>
  /\ UNCHANGED <<products, carts, nextCartId, nextCartItemId, nextOrderId, now,
                 call, emitted, pre>>
  /\ UNCHANGED cacheVars
  /\ UNCHANGED completed

\* s.GetOrder(orderID) after the commit, then the per-category metrics and
\* return order, nil.  A failed re-read returns the error.
CreateOrderGetOrder(p, F) ==
  /\ pc[p] = "co_get_order"
  /\ LET found == {o \in orders : o.id = loc[p].orderID}
     IN \E fail \in F :
          IF fail THEN /\ Return(p, "store error", "get_order")
                       /\ UNCHANGED emitted
          ELSE IF found = {} THEN /\ Return(p, "order not found", "none")
                                  /\ UNCHANGED emitted
          ELSE \E o \in found :
                 /\ pc' = [pc EXCEPT ![p] = "done"]
                 /\ result' = [result EXCEPT ![p] = "ok"]
                 /\ loc' = [loc EXCEPT ![p].order = o]
                 /\ emitted' = [emitted EXCEPT ![p] =
                      RecordCategoryMetrics(loc[p].itemsWithCategories,
                                            call[p].paymentMethod,
                                            call[p].currency, o.status)]
                 /\ UNCHANGED tx
  /\ UNCHANGED <<store, call, pre>>
  /\ UNCHANGED cacheVars
  /\ UNCHANGED completed

----------------------------------------------------------------------------
\* OrderService.UpdateOrderStatus.

\* Variant of validStatuses that also accepts "refunded".
ValidStatusesWithRefunded ==
  {"pending", "processing", "completed", "cancelled", "shipped", "delivered",
   "refunded"}

\* validStatuses
ValidStatuses ==
  {"pending", "processing", "completed", "cancelled", "shipped", "delivered"}

\* Status strings a request may carry; "refunded" is not a recognized label.
RequestStatuses == ValidStatuses \cup {"refunded"}

\* The rows the UPDATE changes: those with the id whose status or updated_at
\* would differ from the stored values.
ChangedRows(orderID, status) ==
  {o \in orders : o.id = orderID /\ (o.status # status \/ o.updated_at # now)}

\* Variant of the affected-rows count of an UPDATE without its WHERE id = ?.
RowsAffectedNoWhere(orderID, status) ==
  Cardinality({o \in orders : o.status # status \/ o.updated_at # now})

\* result.RowsAffected(): the DSN sets no clientFoundRows, so the server counts
\* the rows changed, not the rows matched.
RowsAffected(orderID, status) == Cardinality(ChangedRows(orderID, status))

\* Variant of the UPDATE without its WHERE id = ?: every row is rewritten.
UpdatedOrdersNoWhere(orderID, status) ==
  {[o EXCEPT !.status = status, !.updated_at = now] : o \in orders}

\* UPDATE orders SET status = ?, updated_at = NOW() WHERE id = ?
UpdatedOrders(orderID, status) ==
  {IF o.id = orderID THEN [o EXCEPT !.status = status, !.updated_at = now]
   ELSE o : o \in orders}

\* UpdateOrderStatus is called: the validation, the UPDATE and the
\* affected-rows decision.
UpdateOrderStatus(p, IDs, S, F) ==
  /\ pc[p] = "idle"
  /\ \E id \in IDs, st \in S :
       /\ call' = [call EXCEPT ![p] =
                     [NoCall EXCEPT !.op = "UpdateOrderStatus", !.orderID = id,
                                    !.status = st]]
       /\ \E fail \in F :
            IF st \notin ValidStatuses
            THEN /\ Return(p, "invalid status", "none")
                 /\ UNCHANGED orders
            ELSE IF fail
            THEN /\ Return(p, "store error", "order_update")
                 /\ UNCHANGED orders
            ELSE /\ orders' = UpdatedOrders(id, st)
                 /\ IF RowsAffected(id, st) = 0
                    THEN Return(p, "order not found", "none")
                    ELSE /\ pc' = [pc EXCEPT ![p] =
                                    IF st = "completed" THEN "us_get_order"
                                    ELSE "done"]
                         /\ result' = [result EXCEPT ![p] =
                                    IF st = "completed" THEN "none" ELSE "ok"]
                         /\ loc' = [loc EXCEPT ![p].rowsAffected =
                                      RowsAffected(id, st)]
                         /\ UNCHANGED tx
  /\ emitted' = [emitted EXCEPT ![p] = {}]
  /\ UNCHANGED <<products, carts, cart_items, order_items, nextCartId,
                 nextCartItemId, nextOrderId, now, pre>>
  /\ UNCHANGED cacheVars
  /\ UNCHANGED completed

\* status == "completed": s.GetOrder(orderID); on an error the update still
\* returns nil.
UpdateOrderStatusGetOrder(p, F) ==
  /\ pc[p] = "us_get_order"
  /\ LET found == {o \in orders : o.id = call[p].orderID}
     IN \E fail \in F :
          IF fail \/ found = {}
          THEN Return(p, "ok", IF fail THEN "get_order" ELSE "none")
          ELSE \E o \in found :
                 /\ loc' = [loc EXCEPT ![p].order = o]
                 /\ pc' = [pc EXCEPT ![p] = "us_items"]
                 /\ UNCHANGED <<tx, result>>
  /\ UNCHANGED <<store, call, emitted, pre>>
  /\ UNCHANGED cacheVars
  /\ UNCHANGED completed

\* The rows of the items query that scan: order_items JOIN products; a NULL
\* category does not scan into a string and the row is skipped.
CompletedLines(orderID) ==
  LET rows == {oi \in order_items :
                 /\ oi.order_id = orderID
                 /\ oi.product_id \in DOMAIN products
                 /\ products[oi.product_id].category # SqlNull}
      sorted == SeqById({[id |-> oi.line, product_id |-> oi.product_id,
                          quantity |-> oi.quantity, price |-> oi.price]
                         : oi \in rows})
  IN [k \in 1 .. Len(sorted) |->
        [productID |-> sorted[k].product_id,
         quantity |-> sorted[k].quantity,
         price |-> sorted[k].price,
         category |-> products[sorted[k].product_id].category]]

\* Variant of the items query step that returns the query's error.
UpdateOrderStatusItemsFatal(p, F) ==
  /\ pc[p] = "us_items"
  /\ \E fail \in F :
       /\ emitted' = [emitted EXCEPT ![p] =
            IF fail THEN @
            ELSE RecordCategoryMetrics(CompletedLines(call[p].orderID),
                                       loc[p].order.payment_method,
                                       loc[p].order.currency, "completed")]
       /\ Return(p, IF fail THEN "store error" ELSE "ok",
                 IF fail THEN "items_query" ELSE "none")
  /\ UNCHANGED <<store, call, pre>>
  /\ UNCHANGED cacheVars
  /\ UNCHANGED completed
  /\ UNCHANGED completed

\* s.db.QueryContext(itemQuery), the aggregation and the metrics tagged
\* order_status=completed; on a query error the update still returns nil.
UpdateOrderStatusEmit(p, F) ==
  /\ pc[p] = "us_items"
  /\ \E fail \in F :
       /\ emitted' = [emitted EXCEPT ![p] =
            IF fail THEN @
            ELSE RecordCategoryMetrics(CompletedLines(call[p].orderID),
                                       loc[p].order.payment_method,
                                       loc[p].order.currency, "completed")]
       /\ Return(p, "ok", IF fail THEN "items_query" ELSE "none")
  /\ UNCHANGED <<store, call, pre>>
  /\ UNCHANGED cacheVars

\* The emission step where the emissions of an order are not counted.
UpdateOrderStatusItems(p, F) ==
  UpdateOrderStatusEmit(p, F) /\ UNCHANGED completed

\* The revenue the events es add to RevenueTotal.
RevenueOf(es) ==
  LET rev == {e \in es : e.name = "revenue_total"}
  IN SumSet(rev, [e \in rev |-> e.value])

\* The emission step, counting per order the completion emissions and the
\* revenue they add to the RevenueTotal counter.
UpdateOrderStatusItemsCounted(p, F) ==
  /\ UpdateOrderStatusEmit(p, F)
  /\ completed' = [completed EXCEPT ![call[p].orderID] =
       [count |-> @.count + (IF emitted'[p] = {} THEN 0 ELSE 1),
        revenue |-> @.revenue + RevenueOf(emitted'[p])]]

\* UpdateOrderStatus is called on an order whose completion emissions have
\* not reached the bound.
UpdateOrderStatusCounted(p, IDs, S, F) ==
  \E id \in IDs :
    /\ completed[id].count < MaxCompletions
    /\ UpdateOrderStatus(p, {id}, S, F)

----------------------------------------------------------------------------
\* ProductService.GetProduct and its cache.

\* Variant of the expiry test that still hits at the expiry instant.
CacheHitAtExpiry(entry) == entry # NoEntry /\ now <= entry.expires

\* exists && time.Now().Before(cached.expires)
CacheHit(entry) == entry # NoEntry /\ now < entry.expires

\* GetProduct is called: s.cache.mu.RLock(), granted while no worker holds the
\* write lock.
GetProduct(p, IDs) ==
  /\ pc[p] = "idle"
  /\ mu.writer = 0
  /\ \E id \in IDs :
       call' = [call EXCEPT ![p] =
                  [NoCall EXCEPT !.op = "GetProduct", !.productID = id]]
  /\ mu' = [mu EXCEPT !.readers = @ \cup {p}]
  /\ pc' = [pc EXCEPT ![p] = "gp_lookup"]
  /\ loc' = [loc EXCEPT ![p] = NoLoc]
  /\ emitted' = [emitted EXCEPT ![p] = {}]
  /\ UNCHANGED <<store, tx, result, pre, cache, held>>
  /\ UNCHANGED completed

\* cached, exists := s.cache.items[id], and the expiry test.
GetProductLookup(p) ==
  /\ pc[p] = "gp_lookup"
  /\ LET entry == IF call[p].productID \in DOMAIN cache
                  THEN cache[call[p].productID] ELSE NoEntry
     IN loc' = [loc EXCEPT ![p].hit = CacheHit(entry),
                           ![p].product = IF CacheHit(entry) THEN entry.product
                                          ELSE NoProduct]
  /\ pc' = [pc EXCEPT ![p] = "gp_runlock"]
  /\ UNCHANGED <<store, call, tx, result, emitted, pre, cacheVars>>
  /\ UNCHANGED completed

\* s.cache.mu.RUnlock(); on a hit CacheHits and ProductsViewed are recorded and
\* the cached product is returned, on a miss CacheMisses is recorded.
GetProductRUnlock(p) ==
  /\ pc[p] = "gp_runlock"
  /\ mu' = [mu EXCEPT !.readers = @ \ {p}]
  /\ IF loc[p].hit
     THEN /\ emitted' = [emitted EXCEPT ![p] =
                {Event("cache_hits_total", "", "", "", "", 0, 1),
                 Event("products_viewed_total", loc[p].product.category,
                       "", "", "", 0, 1)}]
          /\ Return(p, "ok", "none")
     ELSE /\ emitted' = [emitted EXCEPT ![p] =
                {Event("cache_misses_total", "", "", "", "", 0, 1)}]
          /\ pc' = [pc EXCEPT ![p] = "gp_query"]
          /\ UNCHANGED <<loc, tx, result>>
  /\ UNCHANGED <<store, call, pre, cache, held>>
  /\ UNCHANGED completed

\* Variant of the store load that goes on to the cache with the zero product
\* when the query fails.
GetProductQueryCachesFailure(p, F) ==
  /\ pc[p] = "gp_query"
  /\ \E fail \in F :
       IF fail
       THEN /\ loc' = [loc EXCEPT ![p].product = NoProduct,
                                  ![p].failed = @ \cup {"product_query"}]
            /\ pc' = [pc EXCEPT ![p] = "gp_lock"]
            /\ UNCHANGED <<tx, result>>
       ELSE IF call[p].productID \notin DOMAIN products
       THEN Return(p, "product not found", "none")
       ELSE IF products[call[p].productID].category = SqlNull
       THEN Return(p, "store error", "product_scan")
       ELSE /\ loc' = [loc EXCEPT ![p].product = ProductRow(call[p].productID)]
            /\ pc' = [pc EXCEPT ![p] = "gp_lock"]
            /\ UNCHANGED <<tx, result>>
  /\ UNCHANGED <<store, call, emitted, pre, cacheVars>>
  /\ UNCHANGED completed

\* SELECT ... FROM products WHERE id = ?, scanned into a models.Product: no row
\* is "product not found", a NULL category does not scan into a string.
GetProductQuery(p, F) ==
  /\ pc[p] = "gp_query"
  /\ \E fail \in F :
       IF fail THEN Return(p, "store error", "product_query")
       ELSE IF call[p].productID \notin DOMAIN products
       THEN Return(p, "product not found", "none")
       ELSE IF products[call[p].productID].category = SqlNull
       THEN Return(p, "store error", "product_scan")
       ELSE /\ loc' = [loc EXCEPT ![p].product = ProductRow(call[p].productID)]
            /\ pc' = [pc EXCEPT ![p] = "gp_lock"]
            /\ UNCHANGED <<tx, result>>
  /\ UNCHANGED <<store, call, emitted, pre, cacheVars>>
  /\ UNCHANGED completed

\* Variant of the write-lock acquisition that does not wait for the readers.
GetProductLockNoWait(p) ==
  /\ pc[p] = "gp_lock"
  /\ mu.writer = 0
  /\ mu' = [mu EXCEPT !.writer = p]
  /\ pc' = [pc EXCEPT ![p] = "gp_put"]
  /\ UNCHANGED <<store, call, loc, tx, result, emitted, pre, cache, held>>
  /\ UNCHANGED completed

\* s.cache.mu.Lock(), granted while no worker holds the lock in either mode.
GetProductLock(p) ==
  /\ pc[p] = "gp_lock"
  /\ mu.writer = 0
  /\ mu.readers = {}
  /\ mu' = [mu EXCEPT !.writer = p]
  /\ pc' = [pc EXCEPT ![p] = "gp_put"]
  /\ UNCHANGED <<store, call, loc, tx, result, emitted, pre, cache, held>>
  /\ UNCHANGED completed

\* s.cache.items[id] = cachedProduct{p, time.Now().Add(5 * time.Minute)}
GetProductPut(p) ==
  /\ pc[p] = "gp_put"
  /\ cache' = [cache EXCEPT ![call[p].productID] =
                 [product |-> loc[p].product, expires |-> now + TTL]]
  /\ pc' = [pc EXCEPT ![p] = "gp_unlock"]
  /\ UNCHANGED <<store, call, loc, tx, result, emitted, pre, mu, held>>
  /\ UNCHANGED completed

\* Variant of the miss path's end that records no ProductsViewed.
GetProductUnlockNoView(p) ==
  /\ pc[p] = "gp_unlock"
  /\ mu' = [mu EXCEPT !.writer = 0]
  /\ Return(p, "ok", "none")
  /\ UNCHANGED <<store, call, emitted, pre, cache, held>>
  /\ UNCHANGED completed

\* s.cache.mu.Unlock(), ProductsViewed is recorded and the loaded product is
\* returned.
GetProductUnlock(p) ==
  /\ pc[p] = "gp_unlock"
  /\ mu' = [mu EXCEPT !.writer = 0]
  /\ emitted' = [emitted EXCEPT ![p] =
       @ \cup {Event("products_viewed_total", loc[p].product.category,
                     "", "", "", 0, 1)}]
  /\ Return(p, "ok", "none")
  /\ UNCHANGED <<store, call, pre, cache, held>>
  /\ UNCHANGED completed

----------------------------------------------------------------------------
\* The environment.

\* The rows the store has held for each product at each clock value, after a
\* step of the environment.
HeldAfter ==
  [id \in ProductIds |->
     [held[id] EXCEPT ![now'] = (IF now' = now THEN @ ELSE {})
                                  \cup {[id |-> id, price |-> products'[id].price,
                                         category |-> products'[id].category]}]]

\* An administrator reprices a product (products.price is the only column of a
\* product that changes).
SetPrice(P) ==
  /\ \E id \in P, pr \in Prices :
       /\ products[id].price # pr
       /\ products' = [products EXCEPT ![id].price = pr]
  /\ UNCHANGED <<carts, cart_items, orders, order_items, nextCartId,
                 nextCartItemId, nextOrderId, now, procs, cache, mu>>
  /\ UNCHANGED completed

\* A repricing where no cache is in use: the rows held are not recorded.
ChangePrice(P) == SetPrice(P) /\ UNCHANGED held

\* A repricing that records the row the store now holds.
ChangePriceHeld(P) == SetPrice(P) /\ held' = HeldAfter

\* A second passes on the store's clock.
Tick ==
  /\ now < MaxTime
  /\ now' = now + 1
  /\ UNCHANGED <<products, carts, cart_items, orders, order_items, nextCartId,
                 nextCartItemId, nextOrderId, procs, cache, mu>>
  /\ held' = HeldAfter
  /\ UNCHANGED completed

----------------------------------------------------------------------------
\* Specifications.

\* The store calls inside an AddToCart that inserts a row (and those it shares
\* with the other cart handlers), each failing or not.
CartStep(p, F) ==
  \/ GetOrCreateCartInsert(p, F)
  \/ AddToCartVerifyProduct(p, F)
  \/ AddToCartCheckItem(p, F)
  \/ AddToCartInsert(p, F)
  \/ UpdateCartItemsCount(p, F)

\* The store call of an AddToCart that grows an existing row, failing or not.
GrowStep(p, F) == AddToCartUpdate(p, F)

\* The store call of RemoveFromCart's own, failing or not.
RemoveStep(p, F) == RemoveFromCartDelete(p, F)

\* The store calls inside CreateOrder, each failing or not.
OrderStep(p, F) ==
  \/ CreateOrderSnapshot(p, F)
  \/ CreateOrderCategories(p, F)
  \/ CreateOrderInsertOrder(p, F)
  \/ CreateOrderInsertItem(p, F)
  \/ CreateOrderCartID(p, F)
  \/ CreateOrderClearCart(p, F)
  \/ CreateOrderCommit(p, F)
  \/ CreateOrderGetOrder(p, F)

\* The store calls inside UpdateOrderStatus, each failing or not.
StatusStep(p, F) ==
  \/ UpdateOrderStatusGetOrder(p, F)
  \/ UpdateOrderStatusItems(p, F)

\* One request at a time: user 1 fills a cart with any product, user 2 with
\* product 1, and both order; every store call of CreateOrder may fail.
Next ==
  \E p \in SeqProcs :
    \/ AddToCart(p, {1}, ProductIds, {1}, NoFaults)
    \/ AddToCart(p, {2}, {1}, {1}, NoFaults)
    \/ CreateOrder(p, Users, {"paypal"}, Faults)
    \/ CartStep(p, NoFaults)
    \/ GrowStep(p, NoFaults)
    \/ OrderStep(p, Faults)
    \/ Respond(p)

Spec == Init /\ [][Next]_vars

\* One request at a time, no store error: user 1 adds to and removes from the
\* cart, orders, completes orders, while the products are repriced.
NextPrices ==
  \/ \E p \in SeqProcs :
       \/ AddToCart(p, {1}, ProductIds, {1}, NoFaults)
       \/ RemoveFromCart(p, {1}, ProductIds, NoFaults)
       \/ CreateOrder(p, {1}, {"paypal"}, NoFaults)
       \/ UpdateOrderStatus(p, RequestOrderIds, {"completed"}, NoFaults)
       \/ CartStep(p, NoFaults)
       \/ GrowStep(p, NoFaults)
       \/ RemoveStep(p, NoFaults)
       \/ OrderStep(p, NoFaults)
       \/ StatusStep(p, NoFaults)
       \/ Respond(p)
  \/ ChangePrice(ProductIds)

SpecPrices == Init /\ [][NextPrices]_vars

\* One request at a time: user 1 orders product 1 in the largest quantity, and
\* any status request is made against the orders while the clock runs; the
\* store calls of UpdateOrderStatus may fail.
NextStatus ==
  \/ \E p \in SeqProcs :
       \/ AddToCart(p, {1}, {1}, {MaxQuantity}, NoFaults)
       \/ CreateOrder(p, {1}, {"paypal"}, NoFaults)
       \/ UpdateOrderStatus(p, RequestOrderIds, RequestStatuses, Faults)
       \/ CartStep(p, NoFaults)
       \/ OrderStep(p, NoFaults)
       \/ StatusStep(p, Faults)
       \/ Respond(p)
  \/ Tick

SpecStatus == Init /\ [][NextStatus]_vars

\* Values the category column of product 2 may hold: a category of its own,
\* product 1's category, the empty string, NULL.
ProductCategories == {"Clothing", "Electronics", "", SqlNull}

\* One request at a time, over every value of product 2's category: user 1
\* fills a cart and orders, every store call of CreateOrder may fail, and the
\* first order is completed.
NextCategories ==
  \E p \in SeqProcs :
    \/ AddToCart(p, {1}, ProductIds, {1}, NoFaults)
    \/ CreateOrder(p, {1}, {"paypal"}, Faults)
    \/ UpdateOrderStatus(p, {1}, {"completed"}, NoFaults)
    \/ CartStep(p, NoFaults)
    \/ GrowStep(p, NoFaults)
    \/ OrderStep(p, Faults)
    \/ StatusStep(p, NoFaults)
    \/ Respond(p)

SpecCategories == InitWith(ProductCategories) /\ [][NextCategories]_vars

\* Product ids a GetProduct request names: product 1 and an id that is not in
\* the catalog.
LookupProductIds == {1, 3}

\* The store calls and lock operations inside GetProduct.
ProductStep(p, F) ==
  \/ GetProductLookup(p)
  \/ GetProductRUnlock(p)
  \/ GetProductQuery(p, F)
  \/ GetProductLock(p)
  \/ GetProductPut(p)
  \/ GetProductUnlock(p)

\* Concurrent requests: two workers look products up while product 1 is
\* repriced and the clock runs; the store read of GetProduct may fail.
NextCache ==
  \/ \E p \in Procs :
       \/ GetProduct(p, LookupProductIds)
       \/ ProductStep(p, Faults)
       \/ Respond(p)
  \/ ChangePriceHeld({1})
  \/ Tick

SpecCache == Init /\ [][NextCache]_vars

\* One request at a time: user 1 adds any product id, in the catalog or not,
\* in any quantity, and takes products out; every store call may fail.
NextCart ==
  \E p \in SeqProcs :
    \/ AddToCart(p, {1}, RequestProductIds, RequestQuantities, Faults)
    \/ RemoveFromCart(p, {1}, ProductIds, Faults)
    \/ CartStep(p, Faults)
    \/ GrowStep(p, Faults)
    \/ RemoveStep(p, Faults)
    \/ Respond(p)

SpecCart == Init /\ [][NextCart]_vars

\* Concurrent requests, no store error: two workers add product 1 to user 1's
\* cart.
NextConcurrent ==
  \E p \in Procs :
    \/ AddToCart(p, {1}, {1}, {1}, NoFaults)
    \/ CartStep(p, NoFaults)
    \/ GrowStep(p, NoFaults)
    \/ Respond(p)

SpecConcurrent == Init /\ [][NextConcurrent]_vars

\* Concurrent requests, no store error: worker 1 fills user 1's cart with
\* product 1 and orders, worker 2 orders for the same user.
NextOrders ==
  \/ AddToCart(1, {1}, {1}, {1}, NoFaults)
  \/ \E p \in Procs :
       \/ CreateOrder(p, {1}, {"paypal"}, NoFaults)
       \/ CartStep(p, NoFaults)
       \/ GrowStep(p, NoFaults)
       \/ OrderStep(p, NoFaults)
       \/ Respond(p)

SpecOrders == Init /\ [][NextOrders]_vars

\* One request at a time, no store error: user 1 orders product 1 and the
\* orders are completed and set back to pending, again and again, while the
\* clock runs; the completion emissions are counted.
NextRevenue ==
  \/ \E p \in SeqProcs :
       \/ AddToCart(p, {1}, {1}, {MaxQuantity}, NoFaults)
       \/ CreateOrder(p, {1}, {"paypal"}, NoFaults)
       \/ UpdateOrderStatusCounted(p, RequestOrderIds, {"completed", "pending"},
                                   NoFaults)
       \/ CartStep(p, NoFaults)
       \/ OrderStep(p, NoFaults)
       \/ UpdateOrderStatusGetOrder(p, NoFaults)
       \/ UpdateOrderStatusItemsCounted(p, NoFaults)
       \/ Respond(p)
  \/ Tick

SpecRevenue == Init /\ [][NextRevenue]_vars

\* The connection pool (db.SetMaxOpenConns), scaled to the number of workers:
\* as many connections as there can be concurrent calls.
MaxOpenConns == Cardinality(Procs)

\* Connections in use between steps: one per open transaction.  A statement
\* run on the pool takes a connection for its own duration only.
OpenConns == Cardinality({q \in Procs : tx[q].open})

\* The pool can hand out a connection; a caller waits until it can.
ConnFree == OpenConns < MaxOpenConns

\* The statements of the cart handlers, each run on a pool connection.
CartOnPool(p) ==
  /\ ConnFree
  /\ \/ AddToCart(p, {1}, {1}, {1}, NoFaults)
     \/ CartStep(p, NoFaults)
     \/ GrowStep(p, NoFaults)

\* s.db.BeginTx takes a pool connection and keeps it until the transaction
\* ends.
CreateOrderOnPool(p) ==
  ConnFree /\ CreateOrder(p, {1}, {"paypal"}, NoFaults)

\* The statements CreateOrder runs on its transaction's connection.
CreateOrderOnTx(p) ==
  \/ CreateOrderSnapshot(p, NoFaults)
  \/ CreateOrderInsertOrder(p, NoFaults)
  \/ CreateOrderInsertItem(p, NoFaults)
  \/ CreateOrderCartID(p, NoFaults)
  \/ CreateOrderClearCart(p, NoFaults)
  \/ CreateOrderCommit(p, NoFaults)

\* s.db.QueryContext(catQuery) takes a second pool connection while the
\* transaction's is held.
CreateOrderCategoriesOnPool(p) ==
  ConnFree /\ CreateOrderCategories(p, NoFaults)

\* s.GetOrder after the commit runs on a pool connection.
CreateOrderGetOrderOnPool(p) ==
  ConnFree /\ CreateOrderGetOrder(p, NoFaults)

\* Concurrent requests over the bounded pool, no store error: worker 1 fills
\* user 1's cart and the workers order.
NextPool ==
  \/ CartOnPool(1)
  \/ \E p \in Procs :
       \/ CreateOrderOnPool(p)
       \/ CreateOrderOnTx(p)
       \/ CreateOrderCategoriesOnPool(p)
       \/ CreateOrderGetOrderOnPool(p)
       \/ Respond(p)

SpecPool == Init /\ [][NextPool]_vars

----------------------------------------------------------------------------
\* Properties of CreateOrder (specification Spec).

\* The handler running on p is CreateOrder and has returned.
CreateOrderDone(p) == pc[p] = "done" /\ call[p].op = "CreateOrder"

\* The cart_items rows of userID's carts in the tables t.
CartItemsOf(t, userID) ==
  {ci \in t.cart_items :
     \E c \in t.carts : c.id = ci.cart_id /\ c.user_id = userID}

\* The six recognized status labels.
SixStatuses ==
  {"pending", "processing", "completed", "cancelled", "shipped", "delivered"}

\* C1: when CreateOrder returns an order for a user whose cart held N >= 1
\* rows when the call began, the call has persisted exactly one new order, in
\* status pending, for that user, whose total_amount is the sum of
\* price * quantity over those rows, and exactly N new order items, one per
\* cart row, carrying the row's product id, its quantity and the product's
\* price.
C1_OrderFromSnapshot ==
  \A p \in SeqProcs :
    (CreateOrderDone(p) /\ result[p] = "ok") =>
      LET u == call[p].userID
          rows == CartItemsOf(pre[p], u)
          sorted == SeqById(rows)
          newOrders == orders \ pre[p].orders
          newItems == order_items \ pre[p].order_items
      IN /\ Cardinality(rows) >= 1
         /\ Cardinality(newOrders) = 1
         /\ \A o \in newOrders :
              /\ o.user_id = u
              /\ o.status = "pending"
              /\ o.total_amount =
                   SumSet(rows, [ci \in rows |->
                                   products[ci.product_id].price * ci.quantity])
              /\ newItems =
                   {[order_id |-> o.id, line |-> k,
                     product_id |-> sorted[k].product_id,
                     quantity |-> sorted[k].quantity,
                     price |-> products[sorted[k].product_id].price]
                      : k \in 1 .. Len(sorted)}
         /\ Cardinality(newItems) = Cardinality(rows)

\* A successful CreateOrder over a cart of two rows, one of quantity 2.
C1_Witness ==
  \E p \in SeqProcs :
    /\ CreateOrderDone(p)
    /\ result[p] = "ok"
    /\ Cardinality(CartItemsOf(pre[p], call[p].userID)) = 2
    /\ \E ci \in CartItemsOf(pre[p], call[p].userID) : ci.quantity = 2
    /\ Cardinality(order_items \ pre[p].order_items) = 2

\* C2: when CreateOrder returns an order, no cart item of that user is left in
\* the store and the user's cart row still exists.
C2_CartClearedAfterOrder ==
  \A p \in SeqProcs :
    (CreateOrderDone(p) /\ result[p] = "ok") =>
      /\ CartItemsOf(Committed, call[p].userID) = {}
      /\ UserCarts(carts, call[p].userID) # {}

\* C3: a CreateOrder whose cart query succeeds for a user with no cart item
\* returns "cart is empty", leaves every table as it was when the call began
\* and emits no metric.
C3_EmptyCartRejected ==
  \A p \in SeqProcs :
    (/\ CreateOrderDone(p)
     /\ CartItemsOf(pre[p], call[p].userID) = {}
     /\ loc[p].failed \cap {"begin", "cart_query"} = {}) =>
      /\ result[p] = "cart is empty"
      /\ Committed = pre[p]
      /\ emitted[p] = {}

\* CreateOrder has returned "cart is empty" to a user without cart items while
\* another user's cart holds items and an order is already stored.
C3_Witness ==
  \E p \in SeqProcs :
    /\ CreateOrderDone(p)
    /\ result[p] = "cart is empty"
    /\ CartItemsOf(pre[p], call[p].userID) = {}
    /\ cart_items # {}
    /\ orders # {}

\* C4: when the order insert, an order-item insert or the commit fails,
\* CreateOrder returns the error, none of its order or order-item rows is
\* committed and the cart items are as they were when the call began.
C4_FailureRollsBack ==
  \A p \in SeqProcs :
    (/\ CreateOrderDone(p)
     /\ loc[p].failed \cap {"order_insert", "item_insert", "commit"} # {}) =>
      /\ result[p] = "store error"
      /\ orders = pre[p].orders
      /\ order_items = pre[p].order_items
      /\ cart_items = pre[p].cart_items

\* The insert of the second order item failed after the first was inserted.
C4_Witness ==
  \E p \in SeqProcs :
    /\ CreateOrderDone(p)
    /\ "item_insert" \in loc[p].failed
    /\ loc[p].i = 2
    /\ loc[p].orderID # 0
    /\ CartItemsOf(pre[p], call[p].userID) # {}

\* The store calls of steps 2 to 7 of CreateOrder.
StepsTwoToSeven ==
  {"cart_query", "category_query", "order_insert", "item_insert", "cart_id",
   "cart_delete", "commit"}

\* C5: when a store call of steps 2 to 7 (cart query, category query, order
\* insert, order-item inserts, cart lookup, cart-item delete, commit) fails,
\* CreateOrder returns an error and no order of the call is persisted.
C5_AnyStoreErrorAborts ==
  \A p \in SeqProcs :
    (CreateOrderDone(p) /\ loc[p].failed \cap StepsTwoToSeven # {}) =>
      /\ result[p] # "ok"
      /\ orders = pre[p].orders
      /\ order_items = pre[p].order_items

----------------------------------------------------------------------------
\* Properties of the stored orders under repricing (specification SpecPrices).

\* The order_items rows of order id.
ItemsOfOrder(id) == {oi \in order_items : oi.order_id = id}

\* C6: in every reachable state the total_amount of each stored order is the
\* sum of price * quantity over its order items, and the price of each order
\* item of a just created order is the price read by the cart snapshot of the
\* creating call.
C6_TotalIsSumOfItems ==
  /\ \A o \in orders :
       o.total_amount =
         SumSet(ItemsOfOrder(o.id),
                [oi \in ItemsOfOrder(o.id) |-> oi.price * oi.quantity])
  /\ \A p \in SeqProcs :
       (CreateOrderDone(p) /\ result[p] = "ok") =>
         \A k \in 1 .. Len(loc[p].items) :
           \E oi \in ItemsOfOrder(loc[p].orderID) :
             /\ oi.line = k
             /\ oi.price = loc[p].items[k].Price

\* A stored order has an item whose price is no longer the product's price.
C6_Witness ==
  \E o \in orders :
    \E oi \in ItemsOfOrder(o.id) :
      /\ oi.price # products[oi.product_id].price
      /\ o.total_amount =
           SumSet(ItemsOfOrder(o.id),
                  [x \in ItemsOfOrder(o.id) |-> x.price * x.quantity])

----------------------------------------------------------------------------
\* Properties of UpdateOrderStatus (specification SpecStatus).

\* The handler running on p is UpdateOrderStatus and has returned.
UpdateOrderStatusDone(p) == pc[p] = "done" /\ call[p].op = "UpdateOrderStatus"

\* This step is the call of UpdateOrderStatus on p: validation, UPDATE and
\* affected-rows decision.
UpdateOrderStatusCalled(p) ==
  pc[p] = "idle" /\ call'[p].op = "UpdateOrderStatus"

\* This step is any step of a running UpdateOrderStatus on p.
UpdateOrderStatusRuns(p) ==
  \/ UpdateOrderStatusCalled(p)
  \/ call[p].op = "UpdateOrderStatus" /\ pc[p] \notin {"idle", "done"}

\* C7: a step of UpdateOrderStatus changes nothing but the status and the
\* updated_at of the order it names: that order keeps its id, user, payment
\* method, total_amount and currency, every other order and every other table
\* is unchanged; and no step of any operation modifies or deletes an order item.
C7_UpdateStatusFrame ==
  [][/\ order_items \subseteq order_items'
     /\ \A p \in SeqProcs :
          UpdateOrderStatusRuns(p) =>
            /\ UNCHANGED <<products, carts, cart_items, order_items,
                           nextCartId, nextCartItemId, nextOrderId>>
            /\ Cardinality(orders') = Cardinality(orders)
            /\ \A o \in orders :
                 \E n \in orders' :
                   /\ n.id = o.id
                   /\ n.user_id = o.user_id
                   /\ n.payment_method = o.payment_method
                   /\ n.total_amount = o.total_amount
                   /\ n.currency = o.currency
                   /\ (o.id # call'[p].orderID => n = o)]_vars

\* UpdateOrderStatus has set one of two stored orders to shipped, a second after
\* the other order, still pending, was stored.
C7_Witness ==
  \E p \in SeqProcs :
    /\ UpdateOrderStatusDone(p)
    /\ result[p] = "ok"
    /\ call[p].status = "shipped"
    /\ \E o \in orders, other \in orders :
         /\ o.id = call[p].orderID
         /\ o.status = "shipped"
         /\ o.updated_at = 1
         /\ other.id # o.id
         /\ other.status = "pending"
         /\ other.updated_at = 0

\* C8: UpdateOrderStatus with a status outside the six recognized labels
\* returns "invalid status", writes nothing and emits no metric; and the status
\* of every stored order is always one of the six labels.
C8_InvalidStatusRejected ==
  [][/\ \A o \in orders' : o.status \in SixStatuses
     /\ \A p \in SeqProcs :
          (UpdateOrderStatusCalled(p) /\ call'[p].status \notin SixStatuses) =>
            /\ pc'[p] = "done"
            /\ result'[p] = "invalid status"
            /\ emitted'[p] = {}
            /\ UNCHANGED store]_vars

\* UpdateOrderStatus has rejected the status "refunded" for a stored order.
C8_Witness ==
  \E p \in SeqProcs :
    /\ UpdateOrderStatusDone(p)
    /\ result[p] = "invalid status"
    /\ call[p].status = "refunded"
    /\ \E o \in orders : o.id = call[p].orderID /\ o.status \in SixStatuses

\* C9: UpdateOrderStatus with a recognized status and the id of no stored
\* order, its UPDATE not failing, returns "order not found", changes nothing and
\* emits no metric, for "completed" as for the other labels.
C9_UnknownOrderRejected ==
  [][\A p \in SeqProcs :
       (/\ UpdateOrderStatusCalled(p)
        /\ call'[p].status \in SixStatuses
        /\ \A o \in orders : o.id # call'[p].orderID
        /\ "order_update" \notin loc'[p].failed) =>
         /\ pc'[p] = "done"
         /\ result'[p] = "order not found"
         /\ emitted'[p] = {}
         /\ UNCHANGED store]_vars

\* UpdateOrderStatus to completed has returned "order not found" for an id that
\* no stored order has, while other orders are stored.
C9_Witness ==
  \E p \in SeqProcs :
    /\ UpdateOrderStatusDone(p)
    /\ result[p] = "order not found"
    /\ call[p].status = "completed"
    /\ orders # {}
    /\ \A o \in orders : o.id # call[p].orderID
    /\ emitted[p] = {}

\* C10: UpdateOrderStatus with any of the six recognized labels on a stored
\* order, whatever its current status and no store call failing, succeeds and
\* leaves that label stored.
C10_AnyTransitionSucceeds ==
  \A p \in SeqProcs :
    (/\ UpdateOrderStatusDone(p)
     /\ call[p].status \in SixStatuses
     /\ loc[p].failed = {}
     /\ \E o \in orders : o.id = call[p].orderID) =>
      /\ result[p] = "ok"
      /\ \A o \in orders : o.id = call[p].orderID => o.status = call[p].status

\* C11: no step takes a stored order from a status other than pending back to
\* pending.
C11_NeverRevertsToPending ==
  [][\A o \in orders :
       \A n \in orders' :
         (n.id = o.id /\ o.status # "pending") => n.status # "pending"]_vars

\* C13: when the re-fetch of the order or the items query fails after the
\* status write of UpdateOrderStatus(id, "completed") succeeded, the call
\* returns success, the stored status is completed and the call has emitted no
\* metric.
C13_RefetchFailureNotFatal ==
  \A p \in SeqProcs :
    (/\ UpdateOrderStatusDone(p)
     /\ call[p].status = "completed"
     /\ loc[p].failed \cap {"get_order", "items_query"} # {}) =>
      /\ result[p] = "ok"
      /\ emitted[p] = {}
      /\ \E o \in orders : o.id = call[p].orderID /\ o.status = "completed"

\* The items query of a completing call failed after the order, pending until
\* then, was re-fetched.
C13_Witness ==
  \E p \in SeqProcs :
    /\ UpdateOrderStatusDone(p)
    /\ call[p].status = "completed"
    /\ "items_query" \in loc[p].failed
    /\ loc[p].order.id = call[p].orderID
    /\ loc[p].rowsAffected = 1
    /\ \E o \in orders : o.id = call[p].orderID /\ o.status = "completed"

----------------------------------------------------------------------------
\* Properties of the metric emissions (specification SpecCategories).

\* The events of the given metric among those the call on p emitted.
EventsNamed(p, name) == {e \in emitted[p] : e.name = name}

\* C12: when UpdateOrderStatus(id, "completed") succeeds on a stored order, it
\* has emitted one orders-created event and one revenue event per distinct
\* category value among the products of the order's items (a missing category
\* being one value), each tagged order_status=completed, and the revenue
\* amounts sum to the order's total_amount.
C12_CompletedEmissionSumsToTotal ==
  \A p \in SeqProcs :
    (/\ UpdateOrderStatusDone(p)
     /\ call[p].status = "completed"
     /\ result[p] = "ok"
     /\ loc[p].failed = {}) =>
      \A o \in orders :
        o.id = call[p].orderID =>
          LET cats == {products[oi.product_id].category : oi \in ItemsOfOrder(o.id)}
              rev == EventsNamed(p, "revenue_total")
              created == EventsNamed(p, "orders_created_total")
          IN /\ \A e \in emitted[p] : e.order_status = "completed"
             /\ Cardinality(rev) = Cardinality(cats)
             /\ Cardinality(created) = Cardinality(cats)
             /\ SumSet(rev, [e \in rev |-> e.value]) = o.total_amount

\* The category tag of a product: its category column, "unknown" when the
\* column is NULL or empty.
CategoryTag(productID) ==
  IF products[productID].category \in {SqlNull, ""} THEN "unknown"
  ELSE products[productID].category

C23_SameCategoryTags ==
  \A p \in SeqProcs :
    (/\ UpdateOrderStatusDone(p)
     /\ call[p].status = "completed"
     /\ result[p] = "ok"
     /\ loc[p].failed = {}
     /\ \E o \in orders : o.id = call[p].orderID
     /\ \A oi \in ItemsOfOrder(call[p].orderID) :
          products[oi.product_id].category # SqlNull) =>
      {e.product_category : e \in emitted[p]} =
        {CategoryTag(oi.product_id) : oi \in ItemsOfOrder(call[p].orderID)}

----------------------------------------------------------------------------
\* Properties of GetProduct and the product cache (specification SpecCache).

\* This step is the map lookup of the GetProduct running on p.
GetProductLooksUp(p) == pc[p] = "gp_lookup" /\ pc'[p] = "gp_runlock"

\* This step is the map write of the GetProduct running on p.
GetProductPuts(p) == pc[p] = "gp_put" /\ pc'[p] = "gp_unlock"

\* The handler running on p is GetProduct and has returned.
GetProductDone(p) == pc[p] = "done" /\ call[p].op = "GetProduct"

\* The entry the cache map holds for id.
CacheEntry(id) == IF id \in DOMAIN cache THEN cache[id] ELSE NoEntry

\* C15: a lookup of id made before the expiry of the entry last put for id is
\* a hit returning the product that was put; a lookup made at or after that
\* expiry, or with no entry, is a miss; and a put of id replaces the entry by
\* the product put, with expiry equal to the put time plus the TTL, and leaves
\* the other entries alone.
C15_HitBeforeExpiryMissAfter ==
  [][\A p \in Procs :
       /\ GetProductLooksUp(p) =>
            LET e == CacheEntry(call[p].productID)
            IN /\ (e # NoEntry /\ now < e.expires) =>
                    (loc'[p].hit /\ loc'[p].product = e.product)
               /\ (e = NoEntry \/ now >= e.expires) => ~loc'[p].hit
       /\ GetProductPuts(p) =>
            /\ cache'[call[p].productID] =
                 [product |-> loc[p].product, expires |-> now + TTL]
            /\ \A id \in DOMAIN cache \ {call[p].productID} :
                 cache'[id] = cache[id]]_vars

\* A lookup has missed on an entry that is in the map and has expired.
C15_Witness ==
  \E p \in Procs :
    /\ pc[p] = "gp_runlock"
    /\ ~loc[p].hit
    /\ CacheEntry(call[p].productID) # NoEntry
    /\ now >= CacheEntry(call[p].productID).expires

\* C16: the product a cache hit returns is a row the store held for that id at
\* some time no more than the TTL before the lookup.
C16_HitStaleAtMostTTL ==
  [][\A p \in Procs :
       (GetProductLooksUp(p) /\ loc'[p].hit) =>
         \E t \in 0 .. now :
           /\ t >= now - TTL
           /\ loc'[p].product \in held[call[p].productID][t]]_vars

\* C17: the cache map is read only by a worker holding the read lock and
\* written only by the worker holding the write lock, the write lock is never
\* held together with a read lock, so no map read overlaps a map write; a
\* worker whose call has returned holds no lock; and every hit returns a whole
\* row of the requested id that the store has held.
C17_LockDiscipline ==
  /\ \A p \in Procs :
       /\ pc[p] = "gp_lookup" => (p \in mu.readers /\ mu.writer = 0)
       /\ pc[p] = "gp_put" => (mu.writer = p /\ mu.readers = {})
       /\ pc[p] \in {"idle", "done"} => (p \notin mu.readers /\ mu.writer # p)
       /\ (GetProductDone(p) /\ loc[p].hit) =>
            /\ loc[p].product.id = call[p].productID
            /\ \E t \in 0 .. now :
                 loc[p].product \in held[call[p].productID][t]
  /\ \A p \in Procs, q \in Procs :
       ~(pc[p] = "gp_lookup" /\ pc[q] = "gp_put")

\* A worker holds the read lock for its lookup while another waits for the
\* write lock to put the product it loaded.
C17_Witness ==
  \E p \in Procs, q \in Procs :
    /\ pc[p] = "gp_lookup"
    /\ p \in mu.readers
    /\ pc[q] = "gp_lock"
    /\ call[p].productID = call[q].productID

\* C18: a GetProduct that has returned has emitted exactly one of a cache-hit
\* and a cache-miss event, and a product-viewed event, one, tagged with the
\* returned product's category, if and only if it returned a product.
C18_HitOrMissAndView ==
  \A p \in Procs :
    GetProductDone(p) =>
      LET hits == EventsNamed(p, "cache_hits_total")
          misses == EventsNamed(p, "cache_misses_total")
          views == EventsNamed(p, "products_viewed_total")
      IN /\ Cardinality(hits) + Cardinality(misses) = 1
         /\ loc[p].hit <=> hits # {}
         /\ emitted[p] = hits \cup misses \cup views
         /\ IF result[p] = "ok"
            THEN /\ loc[p].product.id = call[p].productID
                 /\ Cardinality(views) = 1
                 /\ \A e \in views :
                      e.product_category = loc[p].product.category
            ELSE views = {}

\* Two calls have returned the product, one from the cache and one from the
\* store, each with its product-viewed event.
C18_Witness ==
  \E p \in Procs, q \in Procs :
    /\ GetProductDone(p) /\ result[p] = "ok" /\ loc[p].hit
    /\ GetProductDone(q) /\ result[q] = "ok" /\ ~loc[q].hit
    /\ EventsNamed(p, "products_viewed_total") # {}
    /\ EventsNamed(q, "products_viewed_total") # {}

----------------------------------------------------------------------------
\* Properties of the cart under concurrent requests (specification
\* SpecConcurrent).

\* C19: in every reachable state each user has at most one cart row.
C19_OneCartPerUser ==
  \A u \in Users : Cardinality(UserCarts(carts, u)) <= 1

\* C20: in every reachable state there is at most one cart_items row per cart
\* and product.
C20_OneRowPerCartAndProduct ==
  \A a \in cart_items, b \in cart_items :
    (a.cart_id = b.cart_id /\ a.product_id = b.product_id) => a.id = b.id

----------------------------------------------------------------------------
\* Properties of AddToCart's inputs (specification SpecCart).

\* C21: in every reachable state every cart_items row has quantity >= 1,
\* whatever quantity AddToCart is given.
C21_QuantityAtLeastOne ==
  \A ci \in cart_items : ci.quantity >= 1

\* The step belongs to an AddToCart of a product id that is not in the catalog.
AddsUnknownProduct(p) ==
  /\ pc'[p] # pc[p]
  /\ call'[p].op = "AddToCart"
  /\ call'[p].productID \notin DOMAIN products

\* C22: an AddToCart of a product id that is not in the catalog changes no
\* cart_items row, never reaches the cart_items statements, and returns
\* "product not found" unless a store call before the check failed.
C22_UnknownProductRejected ==
  [][\A p \in SeqProcs :
       AddsUnknownProduct(p) =>
         /\ cart_items' = cart_items
         /\ pc'[p] \notin {"atc_check", "atc_insert", "atc_update", "cart_gauge"}
         /\ pc'[p] = "done" =>
              \/ result'[p] = "product not found"
              \/ result'[p] = "store error" /\ loc'[p].failed # {}]_vars

\* An AddToCart of a product id that is not in the catalog has returned
\* "product not found" while the cart holds a row.
C22_Witness ==
  \E p \in SeqProcs :
    /\ pc[p] = "done"
    /\ call[p].op = "AddToCart"
    /\ call[p].productID \notin DOMAIN products
    /\ result[p] = "product not found"
    /\ cart_items # {}

----------------------------------------------------------------------------
\* Properties of concurrent CreateOrder calls (specification SpecOrders).

\* The steps of CreateOrder from its cart query up to its cart lookup.
ReadsAndInserts ==
  {"co_snapshot", "co_categories", "co_order", "co_items", "co_cart_id"}

\* The (product, quantity) lines of the stored order id.
OrderLines(id) ==
  {[product_id |-> oi.product_id, quantity |-> oi.quantity] :
     oi \in ItemsOfOrder(id)}

\* C24: two CreateOrder calls of one user are not mutually excluded: the cart
\* query and the inserts of a call never wait, whatever another call's open
\* transaction has read or written, and two calls that returned an order from
\* the same snapshot have stored two orders with the same lines.
C24_NotMutuallyExcluded ==
  /\ \A p \in Procs :
       (call[p].op = "CreateOrder" /\ pc[p] \in ReadsAndInserts) =>
         ENABLED OrderStep(p, NoFaults)
  /\ \A p \in Procs, q \in Procs :
       (/\ p # q
        /\ CreateOrderDone(p) /\ result[p] = "ok"
        /\ CreateOrderDone(q) /\ result[q] = "ok"
        /\ loc[p].items = loc[q].items) =>
         /\ loc[p].orderID # loc[q].orderID
         /\ \E o \in orders : o.id = loc[p].orderID
         /\ \E o \in orders : o.id = loc[q].orderID
         /\ OrderLines(loc[p].orderID) = OrderLines(loc[q].orderID)

\* Both workers have returned an order, and the two orders hold the one
\* cart_items row that was ever inserted.
C24_Witness ==
  /\ \A p \in Procs : CreateOrderDone(p) /\ result[p] = "ok"
  /\ nextCartItemId = 2
  /\ Cardinality(orders) = 2
  /\ \A o \in orders :
       OrderLines(o.id) = {[product_id |-> 1, quantity |-> 1]}

----------------------------------------------------------------------------
\* Failures of GetProduct (specification SpecCache).

\* The rows the store has held for id up to now.
HeldSoFar(id) == UNION {held[id][t] : t \in 0 .. now}

\* This step is the return of an error by the GetProduct running on p.
GetProductFails(p) ==
  /\ call[p].op = "GetProduct"
  /\ pc[p] # "done"
  /\ pc'[p] = "done"
  /\ result'[p] # "ok"

\* C25: the cache lookup of GetProduct never returns an error; GetProduct
\* returns an error only from its store load (not found, or a store error),
\* and that step leaves the cache as it is; the cache changes only by the put
\* of a loaded row, so every entry holds a row the store has held for its id.
C25_OnlyStoreLoadFails ==
  /\ [](\A id \in DOMAIN cache :
          cache[id] # NoEntry =>
            /\ cache[id].product.id = id
            /\ cache[id].product \in HeldSoFar(id))
  /\ [][\A p \in Procs :
          /\ GetProductLooksUp(p) => result'[p] = "none"
          /\ GetProductFails(p) =>
               /\ pc[p] = "gp_query"
               /\ result'[p] \in {"product not found", "store error"}
               /\ result'[p] = "store error" => loc'[p].failed # {}
               /\ cache' = cache
          /\ cache' # cache => \E q \in Procs : GetProductPuts(q)]_vars

\* One call has returned "product not found" and the other a store error
\* while the cache holds an entry.
C25_Witness ==
  \E p \in Procs, q \in Procs :
    /\ GetProductDone(p) /\ result[p] = "product not found"
    /\ GetProductDone(q) /\ result[q] = "store error"
    /\ \E id \in DOMAIN cache : cache[id] # NoEntry

----------------------------------------------------------------------------
\* Properties of the connection pool (specification SpecPool).

\* C26: no reachable state has every pool connection held by an open
\* CreateOrder transaction while each of these calls waits for a further
\* connection for its category read.
C26_NoPoolDeadlock ==
  ~(/\ OpenConns = MaxOpenConns
    /\ \A p \in Procs : tx[p].open => pc[p] = "co_categories")

----------------------------------------------------------------------------
\* Errors of CreateOrder (specification Spec).

\* C27: whenever CreateOrder has returned an error, the orders, order_items
\* and cart_items tables are as they were when the call began.
C27_ErrorPersistsNothing ==
  \A p \in SeqProcs :
    (CreateOrderDone(p) /\ result[p] # "ok") =>
      /\ orders = pre[p].orders
      /\ order_items = pre[p].order_items
      /\ cart_items = pre[p].cart_items

----------------------------------------------------------------------------
\* CreateOrder against concurrent AddToCart calls (specification SpecOrders).

\* This step is the commit of the CreateOrder running on p.
CreateOrderCommits(p) == pc[p] = "co_commit" /\ pc'[p] = "co_get_order"

\* C28: every cart_items row that the commit of a CreateOrder removes is in
\* the order items the call inserted, with at least the quantity removed.
C28_ClearedRowsAreOrdered ==
  [][\A p \in Procs :
       CreateOrderCommits(p) =>
         \A ci \in cart_items \ cart_items' :
           \E oi \in tx[p].items :
             oi.product_id = ci.product_id /\ oi.quantity >= ci.quantity]_vars

----------------------------------------------------------------------------
\* Properties of the completion emission (specification SpecRevenue).

\* C29: for each stored order the revenue emitted with order_status=completed
\* over all the calls made so far is at most the order's total_amount.
C29_CompletedRevenueAtMostTotal ==
  \A o \in orders : completed[o.id].revenue <= o.total_amount

----------------------------------------------------------------------------
\* The not-found decision of UpdateOrderStatus (specification SpecStatus).

\* C30: UpdateOrderStatus with a recognized status on an order that is stored
\* never returns "order not found".
C30_StoredOrderIsFound ==
  \A p \in SeqProcs :
    (/\ UpdateOrderStatusDone(p)
     /\ call[p].status \in ValidStatuses
     /\ \E o \in orders : o.id = call[p].orderID) =>
      result[p] # "order not found"

====
